---- MODULE Spec2Model ----
(***************************************************************************)
(* The boss monitor (package monitor): the reconcile loop Run, the stop    *)
(* request Stop, the shutdown pass Shutdown/stopContainers, and the        *)
(* `boss delete` command that rewrites a container's status label.         *)
(*                                                                         *)
(* The containerd client is the environment: every call the monitor makes  *)
(* to it may fail, and tasks exit on their own schedule.  Only containers  *)
(* that carry the io.boss/restart.status label are modelled, since both    *)
(* listings filter on that label.                                          *)
(***************************************************************************)
EXTENDS Integers, Sequences, FiniteSets, TLC

\* Bounds of the model.
NumNs == 2
NumCtr == 2

Namespaces == 1..NumNs
Ctrs == 1..NumCtr

\* containerd.ProcessStatus values and the custom boss status.
Running == "running"
Stopped == "stopped"
DeleteStatus == "delete"
\* Values the status label can hold; "paused" stands for any value the
\* monitor does not recognise.
LabelValues == {Running, Stopped, DeleteStatus, "paused"}
\* What the runtime knows of a container's task.
TaskStates == {"none", Running, Stopped}

VARIABLES
    nsOf,        \* namespace of each container
    ctrs,        \* containers that exist
    label,       \* value of the io.boss/restart.status label
    task,        \* the container's task: "none", "running" or "stopped"
    closes,      \* number of close(m.shutdownCh) executed (2 = panic)
    mu,          \* holder of m.mu: "free", "run" or "shutdown"
    calls,       \* the calls made to Stop and Shutdown, in order
    runPc,       \* position of the Run goroutine
    nsIdx,       \* index of the namespace reconcile is working on
    changes,     \* Changes of the current namespace not yet applied
    seen,        \* what monitor read of each container of that namespace
    computed,    \* the Changes monitor returned for that namespace
    applied,     \* the Changes of that namespace apply was called on
    runErr,      \* the error the last step of the pass logged, if any
    lastFail,    \* the last Change whose apply failed, and what monitor had read
    shutdownPc,  \* position of the Shutdown caller
    sdNs,        \* index of the namespace Shutdown is working on
    sdList,      \* containers of that namespace still to be looked at
    sdSkipped,   \* namespaces whose listing failed (0: the namespace list)
    unit         \* state of the per-container goroutine of stopContainers

world == <<nsOf, ctrs, label, task>>
runVars == <<runPc, nsIdx, changes, seen, computed, applied, runErr, lastFail>>
sdVars == <<shutdownPc, sdNs, sdList, sdSkipped, unit>>
vars == <<nsOf, ctrs, label, task, closes, mu, calls, runPc, nsIdx, changes,
          seen, computed, applied, runErr, lastFail, shutdownPc, sdNs, sdList,
          sdSkipped, unit>>

----------------------------------------------------------------------------
\* Helpers.

RECURSIVE SeqOfSet(_)
\* The elements of a set of container ids in ascending (listing) order.
SeqOfSet(S) ==
    IF S = {} THEN <<>>
    ELSE LET m == CHOOSE x \in S : \A y \in S : x <= y
         IN <<m>> \o SeqOfSet(S \ {m})

\* client.Containers(ctx, labels."io.boss/restart.status") in namespace n.
Containers(n) == SeqOfSet({c \in ctrs : nsOf[c] = n})

\* client.NamespaceService().List(ctx).
NamespaceList == [i \in Namespaces |-> i]

NoSeen == [c \in Ctrs |-> [d |-> "-", a |-> "-"]]

\* No apply has failed since the last pass looked at the container.
NoFail == [c |-> 0, d |-> "-", a |-> "-", k |-> "-", pass |-> "-"]

\* close(m.shutdownCh): closing a closed channel panics and the process dies.
Closed == closes >= 1
Crashed == closes >= 2
Close == closes' = closes + 1

\* m.mu.Lock() returns only when nobody holds the mutex.
CanLock_noMutex(holder) == TRUE
CanLock(holder) == holder = "free"

----------------------------------------------------------------------------
Init ==
    /\ nsOf \in {f \in [Ctrs -> Namespaces] :
                    \A c, d \in Ctrs : c <= d => f[c] <= f[d]}
    /\ ctrs = Ctrs
    /\ label \in [Ctrs -> LabelValues]
    /\ task \in [Ctrs -> TaskStates]
    /\ closes = 0
    /\ mu = "free"
    /\ calls = <<>>
    /\ runPc = "sleep"
    /\ nsIdx = 0
    /\ changes = <<>>
    /\ seen = NoSeen
    /\ computed = <<>>
    /\ applied = <<>>
    /\ runErr = "none"
    /\ lastFail = NoFail
    /\ shutdownPc = "idle"
    /\ sdNs = 0
    /\ sdList = <<>>
    /\ sdSkipped = {}
    /\ unit = [c \in Ctrs |-> "idle"]

----------------------------------------------------------------------------
Stop_takesMutex ==
    /\ ~Crashed
    /\ CanLock(mu)
    /\ "Stop" \notin {calls[i] : i \in DOMAIN calls}
    /\ calls' = Append(calls, "Stop")
    /\ Close
    /\ UNCHANGED <<world, mu, runVars, sdVars>>

\* Stop(): close(m.shutdownCh), nothing else.
Stop ==
    /\ ~Crashed
    /\ "Stop" \notin {calls[i] : i \in DOMAIN calls}
    /\ calls' = Append(calls, "Stop")
    /\ Close
    /\ UNCHANGED <<world, mu, runVars, sdVars>>

----------------------------------------------------------------------------
\* Run: for { time.Sleep; m.mu.Lock(); select {...}; m.mu.Unlock() }

RunWake ==
    /\ ~Crashed
    /\ runPc = "sleep"
    /\ runPc' = "lock"
    /\ UNCHANGED <<world, closes, mu, calls, nsIdx, changes, seen, computed,
                   applied, runErr, lastFail, sdVars>>

RunLock ==
    /\ ~Crashed
    /\ runPc = "lock"
    /\ CanLock(mu)
    /\ mu' = "run"
    /\ runPc' = "check"
    /\ UNCHANGED <<world, closes, calls, nsIdx, changes, seen, computed,
                   applied, runErr, lastFail, sdVars>>

\* case <-m.shutdownCh: return.  The mutex is not unlocked on this path.
RunExit_callsShutdown ==
    /\ ~Crashed
    /\ runPc = "check"
    /\ Closed
    /\ runPc' = "exited"
    /\ unit' = [c \in Ctrs |->
                   IF c \in ctrs /\ task[c] # "none" THEN "timeout" ELSE unit[c]]
    /\ lastFail' = NoFail
    /\ UNCHANGED <<world, closes, mu, calls, nsIdx, changes, seen, computed,
                   applied, runErr, shutdownPc, sdNs, sdList, sdSkipped>>

RunExit ==
    /\ ~Crashed
    /\ runPc = "check"
    /\ Closed
    /\ runPc' = "exited"
    /\ lastFail' = NoFail
    /\ UNCHANGED <<world, closes, mu, calls, nsIdx, changes, seen, computed,
                   applied, runErr, sdVars>>

\* default: m.reconcile(...), which starts by listing the namespaces.
RunReconcile ==
    /\ ~Crashed
    /\ runPc = "check"
    /\ ~Closed
    /\ runPc' = "listns"
    /\ UNCHANGED <<world, closes, mu, calls, nsIdx, changes, seen, computed,
                   applied, runErr, lastFail, sdVars>>

----------------------------------------------------------------------------
\* reconcile and monitor.

\* What c.Labels(ctx) can give for container c: the label, or an error.
LabelObs(c) == {label[c], "labelerr"}

\* What container.Task(ctx, nil) followed by task.Status(ctx) can give: the
\* task's status, an error from Task (not found, or any other), or an
\* error from Status.
TaskObs(c) ==
    IF task[c] = "none" THEN {"taskerr"} ELSE {task[c], "taskerr", "statuserr"}

isSameStatus_errIsDifferent(desired, obs) ==
    IF obs \in {"taskerr", "statuserr"} THEN FALSE ELSE desired = obs

isSameStatus(desired, obs) ==
    IF obs = "taskerr" THEN desired = Stopped
    ELSE IF obs = "statuserr" THEN desired = Stopped
    ELSE desired = obs

changeFor_defaultStops(desired, c) ==
    IF desired = Running THEN <<[kind |-> "start", container |-> c]>>
    ELSE IF desired = DeleteStatus THEN <<[kind |-> "delete", container |-> c]>>
    ELSE <<[kind |-> "stop", container |-> c]>>

\* switch desiredStatus { case Running: ... case Stopped: ... case DeleteStatus: ... }
changeFor(desired, c) ==
    IF desired = Running THEN <<[kind |-> "start", container |-> c]>>
    ELSE IF desired = Stopped THEN <<[kind |-> "stop", container |-> c]>>
    ELSE IF desired = DeleteStatus THEN <<[kind |-> "delete", container |-> c]>>
    ELSE <<>>

RECURSIVE monitor_newestFirst(_, _, _)
monitor_newestFirst(list, lobs, tobs) ==
    IF list = <<>> THEN <<>>
    ELSE LET c == Head(list)
             rest == monitor_newestFirst(Tail(list), lobs, tobs)
         IN IF lobs[c] = "labelerr" THEN rest
            ELSE IF isSameStatus(lobs[c], tobs[c]) THEN rest
            ELSE rest \o changeFor(lobs[c], c)

RECURSIVE monitor_returnsOnLabelError(_, _, _)
monitor_returnsOnLabelError(list, lobs, tobs) ==
    IF list = <<>> THEN <<>>
    ELSE LET c == Head(list)
             rest == monitor_returnsOnLabelError(Tail(list), lobs, tobs)
         IN IF lobs[c] = "labelerr" THEN <<>>
            ELSE IF isSameStatus(lobs[c], tobs[c]) THEN rest
            ELSE changeFor(lobs[c], c) \o rest

RECURSIVE monitor(_, _, _)
\* The loop of monitor over the listed containers, given what the label and
\* task reads return for each.
monitor(list, lobs, tobs) ==
    IF list = <<>> THEN <<>>
    ELSE LET c == Head(list)
             rest == monitor(Tail(list), lobs, tobs)
         IN IF lobs[c] = "labelerr" THEN rest
            ELSE IF isSameStatus(lobs[c], tobs[c]) THEN rest
            ELSE changeFor(lobs[c], c) \o rest

Range(s) == {s[i] : i \in DOMAIN s}

\* The actual status isSameStatus compares with: the task's status, or
\* stopped when the task or its status could not be read.
ActualOf(a) == IF a \in {"taskerr", "statuserr"} THEN Stopped ELSE a

\* The record of a failed apply is dropped once the scan of the container's
\* namespace n in a later pass has been compared with it.
Checked(f, n) ==
    IF f.pass = "earlier" /\ nsOf[f.c] = n THEN NoFail ELSE f

\* At the end of a pass a recorded failure becomes one of an earlier pass.
PassOver(f) == IF f.pass = "current" THEN [f EXCEPT !.pass = "earlier"] ELSE f

\* if err := m.reconcile(...); err != nil { log }: the loop goes on to Unlock.
AfterReconcile_exitOnError(err) == IF err THEN "exited" ELSE "unlock"
AfterReconcile(err) == "unlock"

\* reconcile moves to the next namespace when the `for _, c := range changes`
\* loop has run out of Changes.
NamespaceFinished_applyDeferred(pending) == TRUE
NamespaceFinished(pending) == pending = <<>>

ReconcileListNamespaces_ignoresError ==
    /\ ~Crashed
    /\ runPc = "listns"
    /\ \E ok \in BOOLEAN :
          /\ nsIdx' = 1
          /\ runPc' = "monitor"
          /\ runErr' = IF ok THEN "none" ELSE "list namespaces"
    /\ UNCHANGED <<world, closes, mu, calls, changes, seen, computed, applied,
                   lastFail, sdVars>>

\* ns, err := m.client.NamespaceService().List(ctx); if err != nil { return err }
ReconcileListNamespaces ==
    /\ ~Crashed
    /\ runPc = "listns"
    /\ \E ok \in BOOLEAN :
          IF ok
          THEN /\ nsIdx' = 1
               /\ runPc' = "monitor"
               /\ runErr' = "none"
          ELSE /\ runErr' = "list namespaces"
               /\ runPc' = AfterReconcile(TRUE)
               /\ UNCHANGED nsIdx
    /\ UNCHANGED <<world, closes, mu, calls, changes, seen, computed, applied,
                   lastFail, sdVars>>

ReconcileMonitor_skipsFailed ==
    /\ ~Crashed
    /\ runPc = "monitor"
    /\ LET list == Containers(NamespaceList[nsIdx])
           L == Range(list)
       IN \E ok \in BOOLEAN :
            IF ~ok
            THEN /\ runErr' = "get changes"
                 /\ changes' = <<>>
                 /\ computed' = <<>>
                 /\ seen' = NoSeen
            ELSE \E lobs \in [L -> LabelValues \cup {"labelerr"}],
                    tobs \in [L -> {Running, Stopped, "taskerr", "statuserr"}] :
                    /\ \A c \in L : lobs[c] \in LabelObs(c) /\ tobs[c] \in TaskObs(c)
                    /\ \A c \in L : lobs[c] = "labelerr" => tobs[c] = "taskerr"
                    /\ changes' = SelectSeq(monitor(list, lobs, tobs),
                                            LAMBDA ch : ch.container # lastFail.c)
                    /\ computed' = changes'
                    /\ seen' = [c \in Ctrs |->
                                  IF c \in L
                                  THEN [d |-> lobs[c],
                                        a |-> IF lobs[c] = "labelerr" THEN "-"
                                              ELSE tobs[c]]
                                  ELSE NoSeen[c]]
                    /\ runErr' = "none"
    /\ applied' = <<>>
    /\ runPc' = "apply"
    /\ UNCHANGED <<world, closes, mu, calls, nsIdx, lastFail, sdVars>>

\* changes, err := m.monitor(ctx) for namespace ns[nsIdx].
ReconcileMonitor ==
    /\ ~Crashed
    /\ runPc = "monitor"
    /\ LET list == Containers(NamespaceList[nsIdx])
           L == Range(list)
       IN \E ok \in BOOLEAN :
            IF ~ok
            THEN /\ runErr' = "get changes"
                 /\ changes' = <<>>
                 /\ computed' = <<>>
                 /\ seen' = NoSeen
            ELSE \E lobs \in [L -> LabelValues \cup {"labelerr"}],
                    tobs \in [L -> {Running, Stopped, "taskerr", "statuserr"}] :
                    /\ \A c \in L : lobs[c] \in LabelObs(c) /\ tobs[c] \in TaskObs(c)
                    \* the task is not read when the label read failed
                    /\ \A c \in L : lobs[c] = "labelerr" => tobs[c] = "taskerr"
                    /\ changes' = monitor(list, lobs, tobs)
                    /\ computed' = changes'
                    /\ seen' = [c \in Ctrs |->
                                  IF c \in L
                                  THEN [d |-> lobs[c],
                                        a |-> IF lobs[c] = "labelerr" THEN "-"
                                              ELSE tobs[c]]
                                  ELSE NoSeen[c]]
                    /\ runErr' = "none"
    /\ applied' = <<>>
    /\ runPc' = "apply"
    /\ UNCHANGED <<world, closes, mu, calls, nsIdx, lastFail, sdVars>>

\* The effect of c.apply(ctx, m.client) on the runtime when it succeeds.
applyChange(ch) ==
    LET c == ch.container
    IN /\ c \in ctrs
       /\ IF ch.kind = "start"
          THEN /\ task' = [task EXCEPT ![c] = Running]
               /\ UNCHANGED ctrs
          ELSE IF ch.kind = "stop"
          THEN /\ task' = [task EXCEPT ![c] = IF @ = "none" THEN "none" ELSE Stopped]
               /\ UNCHANGED ctrs
          ELSE /\ task' = [task EXCEPT ![c] = "none"]
               /\ ctrs' = ctrs \ {c}
       /\ UNCHANGED <<nsOf, label>>

\* for _, c := range changes { if err := c.apply(...); err != nil { log } }
ReconcileApply ==
    /\ ~Crashed
    /\ runPc = "apply"
    /\ changes # <<>>
    /\ LET ch == Head(changes)
       IN /\ \/ /\ applyChange(ch)
                /\ runErr' = "none"
                /\ lastFail' = Checked(lastFail, NamespaceList[nsIdx])
             \/ /\ runErr' = "apply change"
                /\ lastFail' = [c |-> ch.container,
                                d |-> seen[ch.container].d,
                                a |-> ActualOf(seen[ch.container].a),
                                k |-> ch.kind,
                                pass |-> "current"]
                /\ UNCHANGED world
          /\ applied' = Append(applied, ch)
          /\ changes' = Tail(changes)
    /\ UNCHANGED <<closes, mu, calls, runPc, nsIdx, seen, computed, sdVars>>

\* End of one iteration of `for _, name := range ns`; after the last
\* namespace reconcile returns nil.
ReconcileNextNamespace ==
    /\ ~Crashed
    /\ runPc = "apply"
    /\ NamespaceFinished(changes)
    /\ IF nsIdx < NumNs
       THEN /\ nsIdx' = nsIdx + 1
            /\ runPc' = "monitor"
       ELSE /\ runPc' = AfterReconcile(FALSE)
            /\ UNCHANGED nsIdx
    /\ runErr' = "none"
    /\ lastFail' = Checked(lastFail, NamespaceList[nsIdx])
    /\ UNCHANGED <<world, closes, mu, calls, changes, seen, computed, applied,
                   sdVars>>

\* m.mu.Unlock() at the end of the loop body, then back to time.Sleep.
RunUnlock ==
    /\ ~Crashed
    /\ runPc = "unlock"
    /\ mu' = "free"
    /\ runPc' = "sleep"
    /\ nsIdx' = 0
    /\ changes' = <<>>
    /\ seen' = NoSeen
    /\ computed' = <<>>
    /\ applied' = <<>>
    /\ runErr' = "none"
    /\ lastFail' = PassOver(lastFail)
    /\ UNCHANGED <<world, closes, calls, sdVars>>

----------------------------------------------------------------------------
\* Shutdown and stopContainers.

\* A caller invokes Shutdown(), which first blocks in m.mu.Lock().
ShutdownCall ==
    /\ ~Crashed
    /\ shutdownPc = "idle"
    /\ "Shutdown" \notin Range(calls)
    /\ calls' = Append(calls, "Shutdown")
    /\ shutdownPc' = "lock"
    /\ UNCHANGED <<world, closes, mu, runVars, sdNs, sdList, sdSkipped, unit>>

ShutdownLock ==
    /\ ~Crashed
    /\ shutdownPc = "lock"
    /\ CanLock(mu)
    /\ mu' = "shutdown"
    /\ shutdownPc' = "listns"
    /\ UNCHANGED <<world, closes, calls, runVars, sdNs, sdList, sdSkipped,
                   unit>>

\* ns, err := m.client.NamespaceService().List(ctx); on error Shutdown goes
\* straight to close(m.shutdownCh).
ShutdownListNamespaces ==
    /\ ~Crashed
    /\ shutdownPc = "listns"
    /\ \E ok \in BOOLEAN :
          IF ok
          THEN /\ sdNs' = 1
               /\ shutdownPc' = "list"
               /\ UNCHANGED sdSkipped
          ELSE /\ sdSkipped' = sdSkipped \cup {0}
               /\ shutdownPc' = "close"
               /\ UNCHANGED sdNs
    /\ UNCHANGED <<world, closes, mu, calls, runVars, sdList, unit>>

\* Where Shutdown goes when stopContainers returns for namespace index i.
AfterNamespace(i) == IF i < NumNs THEN "list" ELSE "close"

\* containers, err := m.client.Containers(ctx, ...) in stopContainers.
StopContainersList ==
    /\ ~Crashed
    /\ shutdownPc = "list"
    /\ \E ok \in BOOLEAN :
          IF ok
          THEN /\ sdList' = Containers(NamespaceList[sdNs])
               /\ shutdownPc' = "spawn"
               /\ UNCHANGED <<sdNs, sdSkipped>>
          ELSE /\ sdSkipped' = sdSkipped \cup {NamespaceList[sdNs]}
               /\ shutdownPc' = AfterNamespace(sdNs)
               /\ sdNs' = IF sdNs < NumNs THEN sdNs + 1 ELSE sdNs
               /\ UNCHANGED sdList
    /\ UNCHANGED <<world, closes, mu, calls, runVars, unit>>

\* One iteration of `for _, c := range containers`: c.Task, task.Wait, then
\* wg.Add(1) and the go statement.
StopContainersSpawn ==
    /\ ~Crashed
    /\ shutdownPc = "spawn"
    /\ sdList # <<>>
    /\ LET c == Head(sdList)
       IN \/ /\ task[c] = "none"            \* errdefs.IsNotFound: continue
             /\ UNCHANGED unit
          \/ /\ unit' = [unit EXCEPT ![c] = "skipped"]   \* c.Task or task.Wait fails
          \/ /\ task[c] # "none"            \* wg.Add(1); go func() {...}()
             /\ unit' = [unit EXCEPT ![c] = "kill"]
    /\ sdList' = Tail(sdList)
    /\ UNCHANGED <<world, closes, mu, calls, runVars, shutdownPc, sdNs,
                   sdSkipped>>

\* wg.Wait(): every goroutine started for namespace n has called wg.Done.
WaitGroupDone_noWait(n) == TRUE
WaitGroupDone(n) ==
    \A c \in Ctrs : nsOf[c] = n => unit[c] \notin {"kill", "select"}

\* wg.Wait(); return nil, and the next iteration of Shutdown's loop.
StopContainersWait ==
    /\ ~Crashed
    /\ shutdownPc = "spawn"
    /\ sdList = <<>>
    /\ WaitGroupDone(NamespaceList[sdNs])
    /\ shutdownPc' = AfterNamespace(sdNs)
    /\ sdNs' = IF sdNs < NumNs THEN sdNs + 1 ELSE sdNs
    /\ UNCHANGED <<world, closes, mu, calls, runVars, sdList, sdSkipped, unit>>

\* task.Kill(ctx, unix.SIGTERM) in the goroutine; on error it returns.
UnitKill(c) ==
    /\ ~Crashed
    /\ unit[c] = "kill"
    /\ \E ok \in BOOLEAN :
          unit' = [unit EXCEPT ![c] = IF ok THEN "select" ELSE "killfail"]
    /\ UNCHANGED <<world, closes, mu, calls, runVars, shutdownPc, sdNs, sdList,
                   sdSkipped>>

\* case <-wait: task.Delete(ctx).  The wait channel fires once the task
\* has exited.
UnitReap(c) ==
    /\ ~Crashed
    /\ unit[c] = "select"
    /\ task[c] = Stopped
    /\ task' = [task EXCEPT ![c] = "none"]
    /\ unit' = [unit EXCEPT ![c] = "reaped"]
    /\ UNCHANGED <<nsOf, ctrs, label, closes, mu, calls, runVars, shutdownPc,
                   sdNs, sdList, sdSkipped>>

UnitTimeout_deletes(c) ==
    /\ ~Crashed
    /\ unit[c] = "select"
    /\ task' = [task EXCEPT ![c] = "none"]
    /\ unit' = [unit EXCEPT ![c] = "timeout"]
    /\ UNCHANGED <<nsOf, ctrs, label, closes, mu, calls, runVars, shutdownPc,
                   sdNs, sdList, sdSkipped>>

\* case <-time.After(10 * time.Second): return.
UnitTimeout(c) ==
    /\ ~Crashed
    /\ unit[c] = "select"
    /\ unit' = [unit EXCEPT ![c] = "timeout"]
    /\ UNCHANGED <<world, closes, mu, calls, runVars, shutdownPc, sdNs, sdList,
                   sdSkipped>>

\* close(m.shutdownCh) and the deferred m.mu.Unlock().
ShutdownClose ==
    /\ ~Crashed
    /\ shutdownPc = "close"
    /\ Close
    /\ mu' = "free"
    /\ shutdownPc' = IF Closed THEN "panic" ELSE "done"
    /\ UNCHANGED <<world, calls, runVars, sdNs, sdList, sdSkipped, unit>>

----------------------------------------------------------------------------
\* The environment.

\* A running task exits (what the channel of task.Wait reports).
TaskExit(c) ==
    /\ c \in ctrs
    /\ task[c] = Running
    /\ task' = [task EXCEPT ![c] = Stopped]
    /\ UNCHANGED <<nsOf, ctrs, label, closes, mu, calls, runVars, sdVars>>

\* boss delete <id>: container.Update(ctx, withStatus(monitor.DeleteStatus)).
DeleteCommand(c) ==
    /\ c \in ctrs
    /\ label[c] # DeleteStatus
    /\ label' = [label EXCEPT ![c] = DeleteStatus]
    /\ UNCHANGED <<nsOf, ctrs, task, closes, mu, calls, runVars, sdVars>>

----------------------------------------------------------------------------
RunStep ==
    \/ RunWake
    \/ RunLock
    \/ RunExit
    \/ RunReconcile
    \/ ReconcileListNamespaces
    \/ ReconcileMonitor
    \/ ReconcileApply
    \/ ReconcileNextNamespace
    \/ RunUnlock

ShutdownStep ==
    \/ ShutdownLock
    \/ ShutdownListNamespaces
    \/ StopContainersList
    \/ StopContainersSpawn
    \/ StopContainersWait
    \/ ShutdownClose

UnitStep(c) == UnitKill(c) \/ UnitReap(c) \/ UnitTimeout(c)

Next ==
    \/ Stop
    \/ ShutdownCall
    \/ RunStep
    \/ ShutdownStep
    \/ \E c \in Ctrs : UnitStep(c)
    \/ \E c \in Ctrs : TaskExit(c)
    \/ \E c \in Ctrs : DeleteCommand(c)

Spec == Init /\ [][Next]_vars

\* The Go scheduler runs every goroutine that can take a step, and timers
\* fire; nothing obliges a caller to call Stop or Shutdown, a task to exit,
\* or an operator to run `boss delete`.
FairSpec ==
    /\ Spec
    /\ WF_vars(RunStep)
    /\ WF_vars(ShutdownStep)
    /\ \A c \in Ctrs : WF_vars(UnitStep(c))

----------------------------------------------------------------------------
\* Properties.

\* A reconcile pass is in progress: Run is inside m.reconcile.
InReconcilePass == runPc \in {"listns", "monitor", "apply"}

\* A shutdown pass is in progress: Shutdown is between taking the mutex and
\* its final close, or one of its goroutines is still running.
InShutdownPass ==
    \/ shutdownPc \in {"listns", "list", "spawn"}
    \/ \E c \in Ctrs : unit[c] \in {"kill", "select"}

\* The shutdown pass is over: every stopContainers call has returned.
ShutdownPassOver == shutdownPc \in {"close", "done", "panic"}

\* Containers whose task was sent SIGTERM by stopContainers.
Signalled == {c \in Ctrs : unit[c] \in {"select", "reaped", "timeout"}}

\* The Changes monitor returned for container c.
ChangesOf(c) == {i \in DOMAIN computed : computed[i].container = c}

\* C1: a reconcile pass and a shutdown pass are never in progress at the
\* same time, in any interleaving of Run, Stop and Shutdown.
C1_PassesExclusive == ~(InReconcilePass /\ InShutdownPass)

\* Shutdown is blocked in m.mu.Lock() while a reconcile pass applies Changes.
C1_Witness == runPc = "apply" /\ changes # <<>> /\ shutdownPc = "lock"

\* C2: every call to Shutdown eventually returns with the shutdown channel
\* closed, whatever Run and a preceding Stop have done.
C2_ShutdownReturns == (shutdownPc = "lock") ~> (shutdownPc = "done" /\ Closed)

\* C3: when Stop is called once and Shutdown once after it, the shutdown
\* channel is closed at most once (no close of a closed channel).
C3_ClosedAtMostOnce == (calls = <<"Stop", "Shutdown">>) => closes <= 1

\* C4 as stated: when Run finds the stop requested, the shutdown pass has
\* been carried out by the time the loop has exited.
C4_ShutdownPassBeforeExit == (runPc = "exited") => ShutdownPassOver

\* C4 as amended: Run exits only from its check of the closed channel, the
\* exit makes no runtime call and starts no shutdown work (no task is
\* signalled, listed or changed by it), the exit is permanent, and shutdown
\* work happens only once Shutdown has been called.
C4_ExitDoesNoShutdown ==
    [][/\ (runPc # "exited" /\ runPc' = "exited") =>
              (runPc = "check" /\ Closed /\ UNCHANGED <<world, sdVars>>)
       /\ (runPc = "exited") => (runPc' = "exited")
       /\ (sdVars' # sdVars) => ("Shutdown" \in Range(calls'))]_vars

\* Run has exited on a Stop while a task is still running and Shutdown has
\* not been called.
C4_Witness ==
    /\ runPc = "exited"
    /\ shutdownPc = "idle"
    /\ \E c \in ctrs : task[c] = Running

\* C5: a container whose label equals its freshly computed actual status
\* (the task's status, or stopped when no task could be loaded) gets no
\* Change from monitor.
C5_StableNoChange ==
    \A c \in Ctrs :
        LET d == seen[c].d
            a == seen[c].a
            actual == IF a = "taskerr" THEN Stopped ELSE a
        IN (d \in LabelValues /\ a \in {"taskerr", Running, Stopped} /\ d = actual)
              => ChangesOf(c) = {}

\* monitor has read label running and a running task for one container and
\* label stopped and no task for another.
C5_Witness ==
    /\ runPc = "apply"
    /\ \E c \in Ctrs : seen[c] = [d |-> Running, a |-> Running]
    /\ \E c \in Ctrs : seen[c] = [d |-> Stopped, a |-> "taskerr"] /\ task[c] = "none"

\* C6: when the shutdown pass is over no goroutine of it is still running,
\* and if no runtime call failed and no goroutine timed out, no container
\* has a task left.
C6_NoFailure ==
    /\ sdSkipped = {}
    /\ \A c \in Ctrs : unit[c] \notin {"skipped", "killfail", "timeout"}

C6_AllReaped ==
    ShutdownPassOver =>
        /\ \A c \in Ctrs : unit[c] \notin {"kill", "select"}
        /\ C6_NoFailure => \A c \in ctrs : task[c] = "none"

\* Shutdown has returned with every container's task reaped.
C6_Witness ==
    /\ shutdownPc = "done"
    /\ \A c \in Ctrs : unit[c] = "reaped"

\* C7: if a signalled task never exits, Shutdown still returns.
C7_ReturnsDespiteHungTask ==
    (<>[](\E c \in Ctrs : unit[c] = "timeout" /\ task[c] = Running))
        => <>(shutdownPc = "done")

\* C8: a container whose label is not running, stopped or delete gets no
\* Change, whatever its task, and monitor reports no error for it.
C8_UnrecognisedNoChange ==
    \A c \in Ctrs :
        (seen[c].d = "paused") =>
            /\ ChangesOf(c) = {}
            /\ applied = <<>> => runErr = "none"

\* monitor has read label "paused" on containers with a running task, a
\* stopped task and no task.
C8_Witness ==
    /\ runPc = "apply"
    /\ \E c \in Ctrs : seen[c].d = "paused" /\ seen[c].a = Running
    /\ \E c \in Ctrs : seen[c].d = "paused" /\ seen[c].a \in {Stopped, "taskerr"}

\* C9: Run exits only on the closed shutdown channel; a failed namespace
\* listing, container listing or apply leaves the loop in the pass or on its
\* way to Unlock and the next sleep.
C9_ExitOnlyOnStop ==
    [][/\ (runPc # "exited" /\ runPc' = "exited") => (runPc = "check" /\ Closed)
       /\ (runErr' # "none") => (runPc' \in {"apply", "unlock"})
       /\ (runPc = "unlock" /\ runPc' # "unlock") => (runPc' = "sleep")]_vars

\* The namespace listing failed and Run is about to unlock and sleep again.
C9_Witness == runPc = "unlock" /\ runErr = "list namespaces" /\ ~Closed

\* C10: reconcile takes the namespaces in listing order, and lists the
\* containers of a namespace only when apply has been called on every
\* Change of the namespace before it.
C10_NamespaceAtATime ==
    [][/\ (runPc # "monitor" /\ runPc' = "monitor") =>
              /\ changes = <<>>
              /\ applied = computed
              /\ nsIdx' = nsIdx + 1
       /\ (runPc = "monitor" /\ runPc' # "monitor") =>
              \A i \in DOMAIN computed' :
                  nsOf[computed'[i].container] = NamespaceList[nsIdx]]_vars

\* The Changes of the first namespace have been applied and the second
\* namespace, which holds a container, is about to be listed.
C10_Witness ==
    /\ runPc = "monitor"
    /\ nsIdx = 2
    /\ applied # <<>>
    /\ \E c \in ctrs : nsOf[c] = 2

\* The Change a container is due when monitor has read label d and task
\* observation a for it: none when the label could not be read, when it is
\* not a recognised status or when it equals the actual status.
DueKind(d) ==
    IF d = Running THEN "start"
    ELSE IF d = Stopped THEN "stop"
    ELSE "delete"

IsDue(d, a) == d \in {Running, Stopped, DeleteStatus} /\ d # ActualOf(a)

\* C11: monitor returns exactly one Change for every listed container whose
\* label is running, stopped or delete and differs from its actual status;
\* the variant is start, stop or delete by the label alone, and the Changes
\* come in the order the containers were listed.
C11_OneChangeInListingOrder ==
    /\ \A c \in Ctrs :
          IsDue(seen[c].d, seen[c].a) =>
              /\ Cardinality(ChangesOf(c)) = 1
              /\ \A i \in ChangesOf(c) : computed[i].kind = DueKind(seen[c].d)
    /\ \A i, j \in DOMAIN computed :
          i < j => computed[i].container < computed[j].container

\* monitor has returned two Changes of different variants for the two
\* containers of one namespace.
C11_Witness ==
    /\ runPc = "apply"
    /\ Len(computed) = 2
    /\ computed[1].kind # computed[2].kind
    /\ \E c \in Ctrs : seen[c] = [d |-> DeleteStatus, a |-> Running]

\* C12 as claimed: a container whose label or task status could not be read
\* gets no Change in this pass.
C12_ReadFailureSkips ==
    \A c \in Ctrs :
        (seen[c].d = "labelerr" \/ seen[c].a = "statuserr") => ChangesOf(c) = {}

\* C12: a container whose label could not be read gets no Change; a
\* container whose task or task status could not be read is compared as
\* stopped, so it gets the Change of its label unless that label is stopped
\* or unrecognised; either way every container of the namespace gets
\* exactly the Change due by what was read for it alone.
C12_ReadFailureIsolated ==
    \A c \in Ctrs :
        /\ seen[c].d = "labelerr" => ChangesOf(c) = {}
        /\ seen[c].a \in {"taskerr", "statuserr"} =>
              (ChangesOf(c) = {} <=>
                  seen[c].d \notin {Running, DeleteStatus})
        /\ seen[c].d \notin {"-", "labelerr"} =>
              IF IsDue(seen[c].d, seen[c].a)
              THEN \E i \in DOMAIN computed :
                      computed[i] = [kind |-> DueKind(seen[c].d), container |-> c]
              ELSE ChangesOf(c) = {}

\* The label of the first container of a namespace could not be read, and
\* the second, whose status read failed under label running, got its Start.
C12_Witness ==
    /\ runPc = "apply"
    /\ \E c, e \in Ctrs :
          /\ c < e
          /\ seen[c].d = "labelerr"
          /\ seen[e] = [d |-> Running, a |-> "statuserr"]
          /\ task[e] = Running
          /\ computed = <<[kind |-> "start", container |-> e]>>

\* C13: when listing the namespaces fails the pass is over: no container was
\* listed, no Change was computed or applied, and the error is back in Run,
\* which goes on to Unlock.
C13_ListNamespacesAborts ==
    (runErr = "list namespaces") =>
        /\ runPc = "unlock"
        /\ nsIdx = 0
        /\ seen = NoSeen
        /\ computed = <<>>
        /\ applied = <<>>
        /\ changes = <<>>

\* The namespace listing failed while a container was due a Start.
C13_Witness ==
    /\ runErr = "list namespaces"
    /\ \E c \in ctrs : label[c] = Running /\ task[c] = "none"

\* C14: a shutdown goroutine deletes a task only from its select, when the
\* task has exited; a goroutine that timed out or whose SIGTERM failed has
\* returned, and its task is not deleted afterwards.
C14_DeleteOnlyAfterExit ==
    [][\A c \in Ctrs :
          /\ (unit'[c] # unit[c] /\ task'[c] # task[c]) =>
                /\ unit[c] = "select"
                /\ task[c] = Stopped
                /\ unit'[c] = "reaped"
                /\ task'[c] = "none"
          /\ (unit[c] \in {"timeout", "killfail"}) =>
                /\ unit'[c] = unit[c]
                /\ task'[c] = "none" => task[c] = "none"]_vars

\* Shutdown has returned; one goroutine timed out and its task, which exited
\* later, is still there, while another task was reaped.
C14_Witness ==
    /\ shutdownPc = "done"
    /\ \E c, e \in Ctrs :
          /\ unit[c] = "timeout"
          /\ task[c] = Stopped
          /\ unit[e] = "reaped"

\* C15 as claimed: all goroutines of a shutdown pass run concurrently, so
\* while Shutdown waits for a goroutine to finish, no container with a live
\* task is still to be signalled, in whatever namespace it is.
C15_AllUnitsConcurrent ==
    (/\ shutdownPc = "spawn"
     /\ sdList = <<>>
     /\ ~WaitGroupDone(NamespaceList[sdNs]))
        => \A c \in ctrs : task[c] # "none" => unit[c] # "idle"

\* C16: Stop can be called whatever the state of the mutex and of a pass;
\* once it has been called no reconcile pass begins and an exited Run stays
\* exited; and Run then exits, unless the process has panicked.
C16_StopEndsPasses ==
    /\ []((("Stop" \notin Range(calls)) /\ ~Crashed) => ENABLED Stop)
    /\ [][("Stop" \in Range(calls)) =>
             /\ ~(runPc = "check" /\ runPc' = "listns")
             /\ runPc = "exited" => runPc' = "exited"]_vars
    /\ (("Stop" \in Range(calls)) ~> (runPc = "exited" \/ Crashed))

\* Stop was called during a reconcile pass, which went on to apply.
C16_Witness ==
    /\ "Stop" \in Range(calls)
    /\ runPc = "apply"
    /\ mu = "run"
    /\ applied # <<>>

\* C17: when the apply of a Change failed and a later pass reads the same
\* label and actual status for the container, monitor returns the same
\* Change again; and after a failed apply the remaining Changes of the
\* namespace are still applied, in order.
C17_FailedChangeRetried ==
    /\ (/\ runPc = "apply"
        /\ applied = <<>>
        /\ lastFail.pass = "earlier"
        /\ seen[lastFail.c].d = lastFail.d
        /\ ActualOf(seen[lastFail.c].a) = lastFail.a)
          => \E i \in DOMAIN computed :
                computed[i] = [kind |-> lastFail.k, container |-> lastFail.c]
    /\ runPc = "apply" => computed = applied \o changes

\* The apply of a Change failed in an earlier pass, and monitor has just
\* read the same label and status for the container in this pass.
C17_Witness ==
    /\ runPc = "apply"
    /\ applied = <<>>
    /\ lastFail.pass = "earlier"
    /\ seen[lastFail.c].d = lastFail.d
    /\ ActualOf(seen[lastFail.c].a) = lastFail.a
    /\ label[lastFail.c] = lastFail.d

\* C18 as claimed: when listing the containers of a namespace failed,
\* Shutdown has still dealt with every live task of the other namespaces,
\* and it returns having closed the shutdown channel exactly once.
C18_SkipsOnlyFailedNamespace ==
    (/\ shutdownPc \in {"done", "panic"}
     /\ sdSkipped # {}
     /\ sdSkipped # Namespaces
     /\ 0 \notin sdSkipped)
        => /\ \A c \in ctrs :
                (nsOf[c] \notin sdSkipped /\ task[c] # "none") => unit[c] # "idle"
           /\ closes = 1
           /\ shutdownPc = "done"

\* C19 as claimed: while Run sleeps or after it has exited, Run does not
\* hold the mutex.
C19_MutexFreeOutsidePass == runPc \in {"sleep", "exited"} => mu # "run"

\* C20 as claimed: a container whose label is not running, stopped or
\* delete is never sent SIGTERM by the shutdown pass.
C20_OnlyManagedSignalled ==
    \A c \in Ctrs :
        label[c] \notin {Running, Stopped, DeleteStatus} => c \notin Signalled

====
